---- MODULE Spec2Model ----
(***************************************************************************)
(* A model of chat-pdfcompress: the orchestrator (app/client/client.py)    *)
(* and the executor (app/worker/worker.py).                                *)
(*                                                                         *)
(* A URL or a file name is a sequence of tokens ("https://", "x", "/",     *)
(* "a", ".pdf"), so that os.path.split, str.split(".pdf") and startswith   *)
(* are computed rather than assumed.  A progress value is a rational       *)
(* [num, den]: Python computes 50 + 50 * k / n in floating point.  A       *)
(* resize ratio is kept in hundredths (1.0 is 100).                        *)
(***************************************************************************)
EXTENDS Integers, Sequences, FiniteSets, TLC

\* ------------------------------------------------------------------ bounds
MaxJobs == 2        \* job ids handed out (uuid4 values are modelled as 1, 2, ...)
MaxInFlight == 1    \* messages written to the executor connection and not yet read
MaxBody == 6        \* length of a response body, in units of one smallest chunk
MaxChunk == 2       \* largest chunk iter_chunked yields, in the same units
MaxPages == 3       \* pages of a document
MaxImages == 1      \* raster images on a page
MaxObservers == 3   \* websockets that ever connect
MaxMsgs == 2        \* updates listen_worker reads

\* ------------------------------------------------------------------ state
VARIABLES
    \* worker.py
    to_worker,       \* lines written to the executor connection, not yet read by handle
    job_queue,       \* asyncio.Queue of job messages
    wpc,             \* where job_worker stands
    msg,             \* the job message job_worker holds
    update_data,     \* job_worker's update_data
    wire,            \* every snapshot written to the connection by job_worker, in order
    emitted_at,      \* history: the place in job_worker that wrote wire[i]
    shared,          \* PDF files in ./shared: [name, whole]
    temp_files,      \* temporary image files in ./shared
    dl,              \* download_pdf_with_progress's locals
    doc_len,         \* len(doc)
    page_index,      \* pages of doc already transformed
    file_to_remove,  \* job_worker's file_to_remove
    enqueued,        \* history: job ids in the order handle enqueued them
    hpc,             \* where handle stands
    last_dispatch,   \* history: the latest message handle dispatched
    \* client.py: Helper
    config,          \* Helper.config
    has_configured,  \* Helper.has_configured
    last_call,       \* history: the latest validate_pdf_url or reset call of the Helper
    next_job,        \* the next fresh job id
    submitted,       \* history: what Helper.execute submitted each of its jobs with
    \* client.py: broadcaster
    connections,     \* the connections list
    ws_state,        \* where each websocket's websocket_updates handler stands
    bpc,             \* where listen_worker / broadcast_update stands
    bidx,            \* the list iterator's index
    bws,             \* the websocket broadcast_update is sending to
    bmsg,            \* the message being broadcast (numbered from 1)
    received,        \* history: the messages each websocket received
    bstart,          \* history: connections when the running broadcast began
    bfailed,         \* history: websockets whose send failed in the running broadcast
    bchanged         \* history: the list was changed by a handler during the broadcast

queueVars == <<job_queue, enqueued>>
jobVars == <<wpc, msg, update_data, wire, emitted_at, shared, temp_files, dl,
             doc_len, page_index, file_to_remove>>
handleVars == <<hpc, last_dispatch>>
workerVars == <<queueVars, handleVars, jobVars>>
helperVars == <<config, has_configured, last_call>>
submitVars == <<to_worker, next_job, submitted>>
bcastVars == <<connections, ws_state, bpc, bidx, bws, bmsg, received, bstart, bfailed,
               bchanged>>
vars == <<workerVars, helperVars, submitVars, bcastVars>>

\* ------------------------------------------------------------------ helpers
Min(a, b) == IF a < b THEN a ELSE b
Max(a, b) == IF a > b THEN a ELSE b
None == [type |-> "none"]

\* A Python number as a rational.
Num(n) == [num |-> n, den |-> 1]
Leq(a, b) == a.num * b.den <= b.num * a.den
Eq(a, b) == a.num * b.den = b.num * a.den

\* Positions of token t in sequence s.
Positions(s, t) == {i \in 1..Len(s) : s[i] = t}
SetMax(S) == CHOOSE x \in S : \A y \in S : y <= x
SetMin(S) == CHOOSE x \in S : \A y \in S : x <= y

\* str.startswith for a first token.
StartsWith(url, t) == Len(url) >= 1 /\ url[1] = t

\* os.path.split(p)[-1]: what follows the last "/".
PathTail(p) ==
    IF Positions(p, "/") = {} THEN p
    ELSE SubSeq(p, SetMax(Positions(p, "/")) + 1, Len(p))

\* name.split(".pdf")[0]: what precedes the first ".pdf".
StemOf(name) ==
    IF Positions(name, ".pdf") = {} THEN name
    ELSE SubSeq(name, 1, SetMin(Positions(name, ".pdf")) - 1)

\* f'{file_dst}_converted.pdf'
filename_dst(filename_src) == StemOf(PathTail(filename_src)) \o <<"_converted", ".pdf">>

U1 == <<"https://", "x", "/", "a", ".pdf">>
U2 == <<"http://", "y", "/", "d", "/", "a", ".pdf">>
U3 == <<"https://", "x", "/", "b", ".pdf", ".pdf">>
UBad == <<"ftp://", "x", "/", "c", ".pdf">>

\* ------------------------------------------------------------------ worker.py
\* The executor's two coroutines, handle and job_worker, run on one event loop:
\* a step is the code between two awaits.

\* job_queue.put / job_queue.get of asyncio.Queue (FIFO).
QueuePutFront(q, m) == <<m>> \o q
QueuePut(q, m) == Append(q, m)

\* A message that carries no "type" key: msg["type"] raises KeyError.
Missing == "<missing>"

\* The queue after handle has dispatched a "delete" message, were the delete to
\* cancel the pending job of that id.
DeleteCancels(q, job_id) == SelectSeq(q, LAMBDA m : m.info.job_id # job_id)

\* The queue after handle has dispatched a "delete" message: handle prints.
DeleteProcessed(q, job_id) == q

\* The server goes on serving after job_worker has raised, as gather would with
\* return_exceptions=True.
ServerKeepsServing == FALSE

\* main: gather hands job_worker's exception to asyncio.run, which cancels
\* serve_forever and ends the process.
ServerStopped == wpc = "crashed"

\* Where the job of id job_id stands in the executor.
JobState(job_id) ==
    IF \E i \in DOMAIN job_queue : job_queue[i].info.job_id = job_id THEN "pending"
    ELSE IF \E i \in DOMAIN wire : wire[i].id = job_id /\ wire[i].data.status = "done"
    THEN "finished"
    ELSE IF msg # None /\ msg.info.job_id = job_id THEN "executing"
    ELSE "unknown"

\* handle: one iteration of the read loop.  A KeyError ends the coroutine, and
\* with it the reading of this connection.
handle ==
    /\ ~ServerStopped
    /\ hpc = "reading"
    /\ to_worker # <<>>
    /\ to_worker' = Tail(to_worker)
    /\ last_dispatch' = [type |-> Head(to_worker).type,
                         job_id |-> Head(to_worker).info.job_id,
                         state |-> IF Head(to_worker).type = "delete"
                                   THEN JobState(Head(to_worker).info.job_id)
                                   ELSE "new"]
    /\ IF Head(to_worker).type = Missing
       THEN hpc' = "raised" /\ UNCHANGED queueVars
       ELSE IF Head(to_worker).type = "job"
       THEN /\ job_queue' = QueuePut(job_queue, Head(to_worker))
            /\ enqueued' = Append(enqueued, Head(to_worker).info.job_id)
            /\ UNCHANGED hpc
       ELSE IF Head(to_worker).type = "delete"
       THEN /\ job_queue' = DeleteProcessed(job_queue, Head(to_worker).info.job_id)
            /\ UNCHANGED <<enqueued, hpc>>
       ELSE UNCHANGED <<queueVars, hpc>>
    /\ UNCHANGED <<jobVars, helperVars, next_job, submitted, bcastVars>>

\* writer.write((json.dumps(update_data) + "\n").encode())
Emit(ud, at) ==
    /\ wire' = Append(wire, ud)
    /\ emitted_at' = Append(emitted_at, at)

NoDownload == [total |-> 0, remaining |-> 0, downloaded |-> 0, next_checkpoint_idx |-> 1]

\* os.path.exists never finding the file.
ExistsNever(name) == FALSE

\* os.path.exists(f"./shared/{name}")
Exists(name) == \E f \in shared : f.name = name
FilePut(S, name, whole) == {f \in S : f.name # name} \cup {[name |-> name, whole |-> whole]}

\* The status of the first snapshot of a job.
InitialStatus == "Working..."

\* update_data as first written.
InitialUpdate(m) ==
    [id |-> m.info.job_id,
     data |-> [filename |-> PathTail(m.info.url),
               status |-> InitialStatus,
               progress |-> Num(0),
               output_filename |-> filename_dst(PathTail(m.info.url)),
               compress |-> "0.0",
               file_size |-> "0.0"]]

\* job_worker, from job_queue.get() to the first drain.
job_worker_get ==
    /\ wpc = "get"
    /\ job_queue # <<>>
    /\ msg' = Head(job_queue)
    /\ job_queue' = Tail(job_queue)
    /\ update_data' = InitialUpdate(Head(job_queue))
    /\ Emit(InitialUpdate(Head(job_queue)), "init")
    /\ wpc' = "download"
    /\ UNCHANGED <<enqueued, handleVars, shared, temp_files, dl, doc_len, page_index,
                   file_to_remove, to_worker, helperVars, next_job, submitted, bcastVars>>

\* job_worker: the file is in ./shared already, no download.
download_skipped ==
    /\ wpc = "download"
    /\ Exists(update_data.data.filename)
    /\ wpc' = "convert"
    /\ UNCHANGED <<msg, update_data, wire, emitted_at, shared, temp_files, dl, doc_len,
                   page_index, file_to_remove, queueVars, handleVars, to_worker, helperVars,
                   next_job, submitted, bcastVars>>

\* download_pdf_with_progress up to the first chunk: the response advertises
\* `total` bytes (0 without a Content-Length) and carries `body`; dest is created.
\* session.get raises on a URL that is not HTTP(S) (see stage_raises).
download_open(total, body) ==
    /\ wpc = "download"
    /\ ~Exists(update_data.data.filename)
    /\ StartsWith(msg.info.url, "http://") \/ StartsWith(msg.info.url, "https://")
    /\ dl' = [total |-> total, remaining |-> body, downloaded |-> 0, next_checkpoint_idx |-> 1]
    /\ shared' = FilePut(shared, update_data.data.filename, body = 0)
    /\ wpc' = "chunks"
    /\ UNCHANGED <<msg, update_data, wire, emitted_at, temp_files, doc_len, page_index,
                   file_to_remove, queueVars, handleVars, to_worker, helperVars, next_job,
                   submitted, bcastVars>>

\* Checkpoints over 0-100, as if the download owned the whole progress bar.
checkpoints_to_100 == <<0, 20, 40, 60, 80, 100>>

\* checkpoints, indexed from 0 as in the source.
checkpoints == <<0, 10, 20, 30, 40, 50>>
At(s, i) == s[i + 1]

\* int((downloaded / total) * 50), with the quotient exact rather than rounded
\* to a float.
PercentOf(downloaded, total) == (downloaded * 50) \div total

\* progress_callback's update of update_data.
progress_callback(ud, progress) ==
    [ud EXCEPT !.data.progress = Num(progress), !.data.status = "Downloading..."]

\* download_pdf_with_progress: one chunk of `c` bytes.  With total = 0 the
\* division raises ZeroDivisionError, which nothing catches.
download_chunk(c) ==
    /\ wpc = "chunks"
    /\ dl.remaining > 0
    /\ c <= dl.remaining
    /\ LET downloaded == dl.downloaded + c
           idx == dl.next_checkpoint_idx
           rest == dl.remaining - c
       IN  /\ shared' = FilePut(shared, update_data.data.filename, rest = 0)
           /\ IF dl.total = 0
              THEN /\ wpc' = "crashed"
                   /\ dl' = NoDownload
                   /\ update_data' = None
                   /\ UNCHANGED <<wire, emitted_at>>
              ELSE IF PercentOf(downloaded, dl.total) >= At(checkpoints, idx)
              THEN /\ update_data' = progress_callback(update_data, At(checkpoints, idx))
                   /\ Emit(progress_callback(update_data, At(checkpoints, idx)), "download")
                   /\ IF idx + 1 = Len(checkpoints)
                      THEN wpc' = "convert" /\ dl' = NoDownload
                      ELSE /\ wpc' = "chunks"
                           /\ dl' = [dl EXCEPT !.downloaded = downloaded, !.remaining = rest,
                                               !.next_checkpoint_idx = idx + 1]
              ELSE /\ wpc' = "chunks"
                   /\ dl' = [dl EXCEPT !.downloaded = downloaded, !.remaining = rest]
                   /\ UNCHANGED <<update_data, wire, emitted_at>>
    /\ UNCHANGED <<msg, temp_files, doc_len, page_index, file_to_remove, queueVars,
                   handleVars, to_worker, helperVars, next_job, submitted, bcastVars>>

\* download_pdf_with_progress: the stream is exhausted.
download_end ==
    /\ wpc = "chunks"
    /\ dl.remaining = 0
    /\ wpc' = "convert"
    /\ dl' = NoDownload
    /\ UNCHANGED <<msg, update_data, wire, emitted_at, shared, temp_files, doc_len,
                   page_index, file_to_remove, queueVars, handleVars, to_worker, helperVars,
                   next_job, submitted, bcastVars>>

\* job_worker after the download: update_data is set to Converting / 50 and the
\* writer drained, with no write; fitz.open gives a document of n pages.
enter_converting(n) ==
    /\ wpc = "convert"
    /\ update_data' = [update_data EXCEPT !.data.status = "Converting...",
                                          !.data.progress = Num(50)]
    /\ doc_len' = n
    /\ page_index' = 0
    /\ file_to_remove' = <<>>
    /\ wpc' = "pages"
    /\ UNCHANGED <<msg, wire, emitted_at, shared, temp_files, dl, queueVars, handleVars, to_worker,
                   helperVars, next_job, submitted, bcastVars>>

\* 50 * (page_index + 1) / len(doc): the download's half left out.
PageProgressNoBase(index, len) == [num |-> 50 * (index + 1), den |-> len]

\* 50 + (50 * page_index / len(doc)): the page counted from 0.
PageProgressFromZero(index, len) == [num |-> 50 * len + 50 * index, den |-> len]

\* 50 + (50 * (page_index + 1) / len(doc))
PageProgress(index, len) == [num |-> 50 * len + 50 * (index + 1), den |-> len]

\* temp_path of image image_index (from 1) of page page_index (from 0).
TempPath(p, i, fmt) == [page |-> p, image |-> i, ext |-> fmt]

\* The temporary files one page of `images` images leaves, in order.
PageTemps(p, images, info) ==
    IF info.quality = 0 THEN <<>>
    ELSE [i \in 1..images |-> TempPath(p, i, info.img_format)]

\* job_worker: one page of the transform loop, with its images, and its snapshot.
transform_page(images) ==
    /\ wpc = "pages"
    /\ page_index < doc_len
    /\ file_to_remove' = file_to_remove \o PageTemps(page_index, images, msg.info)
    /\ temp_files' = temp_files \cup
           {PageTemps(page_index, images, msg.info)[i] :
               i \in DOMAIN PageTemps(page_index, images, msg.info)}
    /\ update_data' = [update_data EXCEPT !.data.progress = PageProgress(page_index, doc_len)]
    /\ Emit([update_data EXCEPT !.data.progress = PageProgress(page_index, doc_len)], "page")
    /\ page_index' = page_index + 1
    /\ UNCHANGED <<wpc, msg, shared, dl, doc_len, queueVars, handleVars, to_worker, helperVars,
                   next_job, submitted, bcastVars>>

\* update_data as last written, were the status left as it was.
FinalUpdateKeepsStatus(ud) ==
    [ud EXCEPT !.data.progress = Num(100),
               !.data.file_size = "measured", !.data.compress = "measured"]

\* update_data as last written.
FinalUpdate(ud) ==
    [ud EXCEPT !.data.status = "done", !.data.progress = Num(100),
               !.data.file_size = "measured", !.data.compress = "measured"]

\* job_worker after the last page: save, clean up, final snapshot, task_done.
job_worker_finish ==
    /\ wpc = "pages"
    /\ page_index = doc_len
    /\ shared' = FilePut(shared, update_data.data.output_filename, TRUE)
    /\ temp_files' = temp_files \ {file_to_remove[i] : i \in DOMAIN file_to_remove}
    /\ update_data' = FinalUpdate(update_data)
    /\ Emit(FinalUpdate(update_data), "done")
    /\ wpc' = "get"
    /\ UNCHANGED <<msg, dl, doc_len, page_index, file_to_remove, queueVars, handleVars, to_worker,
                   helperVars, next_job, submitted, bcastVars>>

\* An exception in the download or transform stage (a transport error, a
\* document fitz cannot open or save): job_worker ends, main with it, and the
\* process with its memory.
Crash ==
    /\ wpc' = "crashed"
    /\ dl' = NoDownload
    /\ doc_len' = 0
    /\ page_index' = 0
    /\ file_to_remove' = <<>>
    /\ update_data' = None

stage_raises ==
    /\ wpc \in {"download", "chunks", "convert", "pages"}
    /\ Crash
    /\ UNCHANGED <<msg, wire, emitted_at, shared, temp_files, queueVars, handleVars, to_worker,
                   helperVars, next_job, submitted, bcastVars>>

\* ------------------------------------------------------------------ client.py: Helper
\* CONFIG / Helper.reset's dictionary.
DefaultConfig ==
    [url |-> <<>>, format |-> "jpeg", quality |-> 100, ratio |-> 100, is_grayscale |-> FALSE]

\* str.lower on the format and content-type strings used here.
Lower(s) ==
    CASE s = "JPEG" -> "jpeg"
      [] s = "PNG" -> "png"
      [] s = "Png" -> "png"
      [] s = "GIF" -> "gif"
      [] s = "Application/PDF" -> "application/pdf"
      [] s = "TEXT/HTML" -> "text/html"
      [] OTHER -> s

set_format(format) ==
    /\ config' = IF Lower(format) \in {"jpeg", "png"}
                 THEN [config EXCEPT !.format = Lower(format)]
                 ELSE config
    /\ last_call' = None
    /\ UNCHANGED <<has_configured, submitVars, workerVars, bcastVars>>

\* int(min(100, quality)): no lower end.
ClampQualityFromAbove(quality) == Min(100, quality)

\* int(max(0, min(100, quality)))
ClampQuality(quality) == Max(0, Min(100, quality))

set_quality(quality) ==
    /\ config' = [config EXCEPT !.quality = ClampQuality(quality)]
    /\ last_call' = None
    /\ UNCHANGED <<has_configured, submitVars, workerVars, bcastVars>>

\* float(max(0.0, min(1.0, ratio))), in hundredths
ClampRatio(ratio) == Max(0, Min(100, ratio))

set_ratio(ratio) ==
    /\ config' = [config EXCEPT !.ratio = ClampRatio(ratio)]
    /\ last_call' = None
    /\ UNCHANGED <<has_configured, submitVars, workerVars, bcastVars>>

set_grayscale(is_grayscale) ==
    /\ config' = [config EXCEPT !.is_grayscale = is_grayscale]
    /\ last_call' = None
    /\ UNCHANGED <<has_configured, submitVars, workerVars, bcastVars>>

set_is_configured ==
    /\ has_configured' = TRUE
    /\ last_call' = None
    /\ UNCHANGED <<config, submitVars, workerVars, bcastVars>>

reset ==
    /\ config' = DefaultConfig
    /\ has_configured' = FALSE
    /\ last_call' = [type |-> "reset", config_before |-> config,
                     has_configured_before |-> has_configured]
    /\ UNCHANGED <<submitVars, workerVars, bcastVars>>

\* "pdf" in ctype.lower()
HasPdf(ctype) == Lower(ctype) \in {"application/pdf", "application/x-pdf"}

\* What the probes of validate_pdf_url may answer.  A HEAD answer: an exception, or
\* a status code, a Content-Type and a Content-Length header (absent, not a number,
\* or a number of bytes).  A GET answer: an exception, no chunk, or a chunk.
MB == 1024 * 1024
Returned(status, reason, sets_url) ==
    [raised |-> "", status |-> status, reason |-> reason, sets_url |-> sets_url]
Raised(type) ==
    [raised |-> type, status |-> FALSE, reason |-> type, sets_url |-> FALSE]

\* The body of validate_pdf_url's try statement.
ValidateTry(head, get) ==
    IF head.exc THEN Raised("RequestException")
    ELSE IF head.status_code < 200 \/ head.status_code >= 300
    THEN Returned(FALSE, "HTTP error", FALSE)
    ELSE IF ~HasPdf(head.ctype) THEN Returned(FALSE, "Not a PDF content type", FALSE)
    ELSE IF head.clen.kind = "text" THEN Raised("ValueError")
    ELSE IF head.clen.kind = "int" /\ head.clen.value > 500 * MB
    THEN Returned(FALSE, "File too large", FALSE)
    ELSE IF get = "exc" THEN Raised("RequestException")
    ELSE IF get = "empty" THEN Returned(FALSE, "Empty file / cannot stream", FALSE)
    ELSE Returned(TRUE, "PDF is valid and downloadable", TRUE)

\* except RequestException only: a ValueError escapes.
ExceptRequestOnly(r) ==
    IF r.raised = "RequestException" THEN Returned(FALSE, r.reason, r.sets_url) ELSE r

\* except Exception as e: return {"status": False, "reason": str(e)}
ExceptException(r) ==
    IF r.raised # "" THEN Returned(FALSE, r.reason, r.sets_url) ELSE r

\* validate_pdf_url's outcome.
ValidateOutcome(url, head, get) ==
    IF ~StartsWith(url, "http://") /\ ~StartsWith(url, "https://")
    THEN Returned(FALSE, "Invalid protocol", FALSE)
    ELSE ExceptException(ValidateTry(head, get))

validate_pdf_url(url, head, get) ==
    /\ config' = IF ValidateOutcome(url, head, get).sets_url
                 THEN [config EXCEPT !.url = url]
                 ELSE config
    /\ last_call' = [type |-> "validate_pdf_url",
                     url |-> url, head |-> head, get |-> get,
                     outcome |-> ValidateOutcome(url, head, get),
                     config_before |-> config,
                     has_configured_before |-> has_configured]
    /\ UNCHANGED <<has_configured, submitVars, workerVars, bcastVars>>

\* ------------------------------------------------------------------ client.py: submission
\* The "info" of a job message.
JobInfo(job_id, url, img_format, quality, ratio, is_gray) ==
    [job_id |-> job_id, url |-> url, img_format |-> img_format, quality |-> quality,
     ratio |-> ratio, is_gray |-> is_gray]

\* CONFIG, the module-level defaults, in place of self.config.
ExecuteInfoFromDefaults(job_id, cfg) ==
    JobInfo(job_id, DefaultConfig.url, DefaultConfig.format, DefaultConfig.quality,
            DefaultConfig.ratio, DefaultConfig.is_grayscale)

\* json_data["info"] of Helper.execute.
ExecuteInfo(job_id, cfg) ==
    JobInfo(job_id, cfg.url, cfg.format, cfg.quality, cfg.ratio, cfg.is_grayscale)

\* writer.write of one message to the executor connection.
Send(m) ==
    /\ Len(to_worker) < MaxInFlight
    /\ to_worker' = Append(to_worker, m)

\* Helper.execute
execute ==
    /\ next_job <= MaxJobs
    /\ Send([type |-> "job", info |-> ExecuteInfo(next_job, config)])
    /\ submitted' = submitted @@
           (next_job :> [config |-> config, has_configured |-> has_configured])
    /\ next_job' = next_job + 1
    /\ last_call' = None
    /\ UNCHANGED <<config, has_configured, workerVars, bcastVars>>

\* chat, the "!syscall" branch, with the arguments already parsed.
chat_syscall(url, img_format, quality, ratio, is_gray) ==
    /\ next_job <= MaxJobs
    /\ Send([type |-> "job",
             info |-> JobInfo(next_job, url, img_format, quality, ratio, is_gray)])
    /\ next_job' = next_job + 1
    /\ UNCHANGED <<submitted, helperVars, workerVars, bcastVars>>

\* delete_job
delete_job(job_id) ==
    /\ Send([type |-> "delete", info |-> [job_id |-> job_id]])
    /\ UNCHANGED <<next_job, submitted, helperVars, workerVars, bcastVars>>

\* A line of another kind written to the executor connection, which takes
\* whatever a client of port 8080 writes.
peer_send(type) ==
    /\ Send([type |-> type, info |-> [job_id |-> 0]])
    /\ UNCHANGED <<next_job, submitted, helperVars, workerVars, bcastVars>>


\* ------------------------------------------------------------------ client.py: broadcaster
Observers == 1..MaxObservers

\* list.remove(x): the first occurrence goes.
ListRemove(list, x) ==
    SubSeq(list, 1, SetMin(Positions(list, x)) - 1)
        \o SubSeq(list, SetMin(Positions(list, x)) + 1, Len(list))

\* websocket_updates up to the first sleep: accept, connections.append(ws).
websocket_connect(ws) ==
    /\ ws_state[ws] = "new"
    /\ ws_state' = [ws_state EXCEPT ![ws] = "open"]
    /\ connections' = Append(connections, ws)
    /\ bchanged' = (bchanged \/ bpc \in {"next", "send"})
    /\ UNCHANGED <<bpc, bidx, bws, bmsg, received, bstart, bfailed, workerVars,
                   helperVars, submitVars>>

\* websocket_updates is cancelled in its sleep: finally, connections.remove(ws),
\* which raises ValueError when ws is no longer in the list.
websocket_disconnect(ws) ==
    /\ ws_state[ws] = "open"
    /\ IF Positions(connections, ws) # {}
       THEN /\ connections' = ListRemove(connections, ws)
            /\ ws_state' = [ws_state EXCEPT ![ws] = "closed"]
       ELSE /\ ws_state' = [ws_state EXCEPT ![ws] = "raised"]
            /\ UNCHANGED connections
    /\ bchanged' = (bchanged \/ bpc \in {"next", "send"})
    /\ UNCHANGED <<bpc, bidx, bws, bmsg, received, bstart, bfailed, workerVars,
                   helperVars, submitVars>>

\* listen_worker: one line read, broadcast_update(msg) called, the list iterator made.
listen_worker ==
    /\ bpc = "read"
    /\ bmsg < MaxMsgs
    /\ bmsg' = bmsg + 1
    /\ bidx' = 0
    /\ bpc' = "next"
    /\ bstart' = connections
    /\ bfailed' = {}
    /\ bchanged' = FALSE
    /\ UNCHANGED <<connections, ws_state, bws, received, workerVars, helperVars,
                   submitVars>>

\* The index the list iterator holds after yielding the item at index i.
IterAdvance(i) == i + 1

\* broadcast_update: `for ws in connections` takes the next item and send_text is
\* awaited, or the list is exhausted and broadcast_update returns.
broadcast_next ==
    /\ bpc = "next"
    /\ IF bidx < Len(connections)
       THEN /\ bws' = connections[bidx + 1]
            /\ bidx' = IterAdvance(bidx)
            /\ bpc' = "send"
       ELSE /\ bpc' = "read"
            /\ UNCHANGED <<bws, bidx>>
    /\ UNCHANGED <<connections, ws_state, bmsg, received, bstart, bfailed, bchanged,
                   workerVars, helperVars, submitVars>>

\* broadcast_update: the awaited send_text returns (ok) or raises; on an exception
\* connections.remove(ws), whose own ValueError ends listen_worker.
broadcast_send(ok) ==
    /\ bpc = "send"
    /\ IF ok
       THEN /\ received' = [received EXCEPT ![bws] = Append(@, bmsg)]
            /\ bpc' = "next"
            /\ UNCHANGED <<connections, bfailed>>
       ELSE /\ bfailed' = bfailed \cup {bws}
            /\ UNCHANGED received
            /\ IF Positions(connections, bws) # {}
               THEN connections' = ListRemove(connections, bws) /\ bpc' = "next"
               ELSE bpc' = "raised" /\ UNCHANGED connections
    /\ UNCHANGED <<ws_state, bidx, bws, bmsg, bstart, bchanged, workerVars, helperVars,
                   submitVars>>


\* ------------------------------------------------------------------ specifications
\* The state after start-up, ./shared holding `files`.
InitWith(files) ==
    /\ to_worker = <<>>
    /\ job_queue = <<>>
    /\ wpc = "get"
    /\ msg = None
    /\ update_data = None
    /\ wire = <<>>
    /\ emitted_at = <<>>
    /\ shared = files
    /\ temp_files = {}
    /\ dl = NoDownload
    /\ doc_len = 0
    /\ page_index = 0
    /\ file_to_remove = <<>>
    /\ enqueued = <<>>
    /\ hpc = "reading"
    /\ last_dispatch = None
    /\ config = DefaultConfig
    /\ has_configured = FALSE
    /\ last_call = None
    /\ next_job = 1
    /\ submitted = <<>>
    /\ connections = <<>>
    /\ ws_state = [ws \in Observers |-> "new"]
    /\ bpc = "read"
    /\ bidx = 0
    /\ bws = 0
    /\ bmsg = 0
    /\ received = [ws \in Observers |-> <<>>]
    /\ bstart = <<>>
    /\ bfailed = {}
    /\ bchanged = FALSE

Init == InitWith({})

\* The steps of job_worker, over the responses (advertised total, body length),
\* chunk sizes, page counts and image counts given.
WorkerNext(Responses, Chunks, PageCounts, ImageCounts) ==
    \/ job_worker_get
    \/ download_skipped
    \/ \E r \in Responses : download_open(r[1], r[2])
    \/ \E c \in Chunks : download_chunk(c)
    \/ download_end
    \/ \E n \in PageCounts : enter_converting(n)
    \/ \E images \in ImageCounts : transform_page(images)
    \/ job_worker_finish
    \/ stage_raises

\* Arguments of "!syscall" messages.
SyscallArgs ==
    {[url |-> U1, img_format |-> "jpeg", quality |-> 80, ratio |-> 100, is_gray |-> FALSE],
     [url |-> U2, img_format |-> "png", quality |-> 0, ratio |-> 50, is_gray |-> TRUE],
     [url |-> U3, img_format |-> "jpeg", quality |-> 80, ratio |-> 100, is_gray |-> FALSE]}

\* Spec: the executor with its queue, fed by the orchestrator's chat endpoint;
\* a few responses and documents.
Next ==
    \/ \E a \in SyscallArgs :
           chat_syscall(a.url, a.img_format, a.quality, a.ratio, a.is_gray)
    \/ handle
    \/ WorkerNext({<<0, 1>>, <<1, 5>>}, {1, 4}, {1, 2}, {1})

Spec == Init /\ [][Next]_vars

\* SpecJob: one job through job_worker, over every response, chunking and
\* document within the bounds; ./shared may hold a file of an earlier run.
InitJob ==
    \E files \in {{}, {[name |-> PathTail(U1), whole |-> TRUE]}} : InitWith(files)

NextJob ==
    \/ \E a \in SyscallArgs :
           next_job = 1 /\ chat_syscall(a.url, a.img_format, a.quality, a.ratio, a.is_gray)
    \/ handle
    \/ WorkerNext((0..MaxBody) \X (0..MaxBody), 1..MaxChunk, 1..MaxPages, 0..MaxImages)

SpecJob == InitJob /\ [][NextJob]_vars

\* What a HEAD probe may answer: an exception, or GoodHead with one of its
\* status code, Content-Type and Content-Length changed.
GoodHead ==
    [exc |-> FALSE, status_code |-> 200, ctype |-> "application/pdf",
     clen |-> [kind |-> "int", value |-> MB]]

HeadAnswers ==
    {[GoodHead EXCEPT !.exc = TRUE]}
    \cup {[GoodHead EXCEPT !.status_code = c] : c \in {199, 200, 299, 300, 404}}
    \cup {[GoodHead EXCEPT !.ctype = t] : t \in {"Application/PDF", "text/html", ""}}
    \cup {[GoodHead EXCEPT !.clen = l] :
              l \in {[kind |-> "absent", value |-> 0], [kind |-> "text", value |-> 0],
                     [kind |-> "int", value |-> 500 * MB],
                     [kind |-> "int", value |-> 500 * MB + 1]}}

GetAnswers == {"exc", "empty", "chunk"}

\* SpecHelper: the Helper's configuration operations, called in any order with
\* in-range, out-of-range and unrecognised arguments.
NextHelper ==
    \/ \E format \in {"jpeg", "PNG", "gif"} : set_format(format)
    \/ \E quality \in {-5, 55, 150} : set_quality(quality)
    \/ \E ratio \in {-50, 150} : set_ratio(ratio)
    \/ \E is_grayscale \in BOOLEAN : set_grayscale(is_grayscale)
    \/ set_is_configured
    \/ reset
    \/ \E url \in {U1, UBad}, head \in HeadAnswers, get \in GetAnswers :
           validate_pdf_url(url, head, get)

SpecHelper == Init /\ [][NextHelper]_vars

\* SpecPipeline: one job from the Helper through the connection and the queue to
\* job_worker, while the Helper's operations go on; ./shared holds a.pdf of an
\* earlier run.
NextPipeline ==
    \/ set_format("png")
    \/ set_quality(0)
    \/ set_ratio(50)
    \/ set_grayscale(TRUE)
    \/ set_is_configured
    \/ reset
    \/ \E url \in {U1, U3} : validate_pdf_url(url, GoodHead, "chunk")
    \/ next_job = 1 /\ execute
    \/ handle
    \/ WorkerNext({<<1, 1>>}, {1}, {1}, {1})

SpecPipeline ==
    InitWith({[name |-> PathTail(U1), whole |-> TRUE]}) /\ [][NextPipeline]_vars

\* SpecDispatch: handle dispatching job messages, delete messages for any job id
\* and messages of other kinds, while job_worker runs; one response, one page.
NextDispatch ==
    \/ \E a \in SyscallArgs :
           chat_syscall(a.url, a.img_format, a.quality, a.ratio, a.is_gray)
    \/ \E job_id \in 1..MaxJobs : delete_job(job_id)
    \/ \E type \in {"ping", Missing} : peer_send(type)
    \/ handle
    \/ WorkerNext({<<1, 1>>}, {1}, {1}, {1})

SpecDispatch == Init /\ [][NextDispatch]_vars

\* Arguments of "!syscall" messages that int() and float() parse, within and
\* outside the ranges of the configuration.
ChatArgs ==
    {[url |-> U1, img_format |-> f, quality |-> q, ratio |-> r, is_gray |-> FALSE] :
         f \in {"jpeg", "gif"}, q \in {-1, 80, 101}, r \in {-50, 50, 200}}

\* SpecSubmit: the two ways a job message is written to the executor connection,
\* Helper.execute after the Helper's setters and the "!syscall" branch of chat.
NextSubmit ==
    \/ \E format \in {"PNG", "gif"} : set_format(format)
    \/ \E quality \in {-5, 150} : set_quality(quality)
    \/ \E ratio \in {-50, 150} : set_ratio(ratio)
    \/ execute
    \/ \E a \in ChatArgs :
           chat_syscall(a.url, a.img_format, a.quality, a.ratio, a.is_gray)
    \/ handle

SpecSubmit == Init /\ [][NextSubmit]_vars

\* The steps of job_worker when no stage raises: every response advertises its
\* length, and the length is not 0.
NextLive ==
    \/ \E a \in SyscallArgs :
           chat_syscall(a.url, a.img_format, a.quality, a.ratio, a.is_gray)
    \/ handle
    \/ job_worker_get
    \/ download_skipped
    \/ \E r \in {<<1, 1>>, <<2, 2>>} : download_open(r[1], r[2])
    \/ \E c \in {1} : download_chunk(c)
    \/ download_end
    \/ \E n \in {1, 2} : enter_converting(n)
    \/ \E images \in {1} : transform_page(images)
    \/ job_worker_finish

\* SpecLive: the event loop runs job_worker whenever it can take a step.
SpecLive ==
    /\ Init
    /\ [][NextLive]_vars
    /\ WF_vars(\/ job_worker_get
               \/ download_skipped
               \/ \E r \in {<<1, 1>>, <<2, 2>>} : download_open(r[1], r[2])
               \/ \E c \in {1} : download_chunk(c)
               \/ download_end
               \/ \E n \in {1, 2} : enter_converting(n)
               \/ \E images \in {1} : transform_page(images)
               \/ job_worker_finish)

\* SpecDelete: jobs and delete messages for any job id, dispatched while
\* job_worker runs whenever it can take a step and no stage raises; one
\* response, one page.
NextDelete ==
    \/ chat_syscall(U1, "jpeg", 80, 100, FALSE)
    \/ \E job_id \in 1..MaxJobs : delete_job(job_id)
    \/ handle
    \/ job_worker_get
    \/ download_skipped
    \/ download_open(1, 1)
    \/ download_chunk(1)
    \/ download_end
    \/ enter_converting(1)
    \/ transform_page(1)
    \/ job_worker_finish

SpecDelete ==
    /\ Init
    /\ [][NextDelete]_vars
    /\ WF_vars(\/ job_worker_get
               \/ download_skipped
               \/ download_open(1, 1)
               \/ download_chunk(1)
               \/ download_end
               \/ enter_converting(1)
               \/ transform_page(1)
               \/ job_worker_finish)

\* SpecBroadcast: listen_worker and broadcast_update, with websockets connecting
\* and disconnecting, and sends succeeding or failing.
NextBroadcast ==
    \/ \E ws \in Observers : websocket_connect(ws)
    \/ \E ws \in Observers : websocket_disconnect(ws)
    \/ listen_worker
    \/ broadcast_next
    \/ \E ok \in BOOLEAN : broadcast_send(ok)

SpecBroadcast == Init /\ [][NextBroadcast]_vars

\* ------------------------------------------------------------------ claims
\* What the claims read off the connection.
Ids == {wire[i].id : i \in DOMAIN wire}
Of(id) == {i \in DOMAIN wire : wire[i].id = id}
At_(id, place) == {i \in Of(id) : emitted_at[i] = place}
Nth(S, k) == CHOOSE i \in S : Cardinality({j \in S : j < i}) = k - 1
EnqueuedAt(id) == SetMin(Positions(enqueued, id))
ReceivedBy(ws, m) == Positions(received[ws], m)
IsDone(i) == wire[i].data.status = "done"

\* C1: when broadcast_update returns, no handler having touched the list during
\* the call, every websocket that was in the list when the call began and whose
\* send did not fail has received the message, and no websocket whose send
\* failed is still in the list.
C1_BroadcastReachesEveryLiveObserver ==
    (bpc = "read" /\ bmsg > 0 /\ ~bchanged) =>
        \A i \in DOMAIN bstart :
            /\ bstart[i] \notin bfailed => ReceivedBy(bstart[i], bmsg) # {}
            /\ bstart[i] \in bfailed => Positions(connections, bstart[i]) = {}

\* C2: jobs run one at a time in the order handle enqueued them: the snapshots
\* of a job are contiguous on the connection, a job enqueued earlier has its
\* done snapshot before any snapshot of a job enqueued later, and at most one
\* job has started without being done.
C2_OneJobAtATimeInOrder ==
    /\ \A i, k \in DOMAIN wire :
           (i < k /\ wire[i].id # wire[k].id) =>
               /\ EnqueuedAt(wire[i].id) < EnqueuedAt(wire[k].id)
               /\ \E j \in Of(wire[i].id) : j < k /\ IsDone(j)
               /\ \A j \in Of(wire[i].id) : j < k
    /\ \A k \in DOMAIN wire : \A e \in 1..(EnqueuedAt(wire[k].id) - 1) :
           \E j \in Of(enqueued[e]) : j < k /\ IsDone(j)
    /\ Cardinality({id \in Ids : \A j \in Of(id) : ~IsDone(j)}) <= 1

\* C2's case: two jobs went through the queue and both are done, the later one
\* after a download of its own.
C2_Witness ==
    /\ Len(enqueued) >= 2
    /\ \E i \in Of(enqueued[1]) : IsDone(i)
    /\ \E i \in Of(enqueued[2]) : IsDone(i)
    /\ \E i \in Of(enqueued[2]) : emitted_at[i] = "download"

\* C3: the progress values of a job's snapshots never decrease along the
\* connection, and nothing follows a job's done snapshot under the same id.
C3_ProgressMonotoneDoneLast ==
    \A i, k \in DOMAIN wire :
        (i < k /\ wire[i].id = wire[k].id) =>
            /\ Leq(wire[i].data.progress, wire[k].data.progress)
            /\ ~IsDone(i)

\* C3's case: a job with download checkpoints, page snapshots and its done
\* snapshot, and a later job that skipped the download and is done too.
C3_Witness ==
    \E a, b \in Ids :
        /\ a # b
        /\ At_(a, "download") # {} /\ At_(a, "page") # {} /\ At_(a, "done") # {}
        /\ At_(b, "download") = {} /\ At_(b, "page") # {} /\ At_(b, "done") # {}

\* C4: once a job is in the transform loop, a snapshot with status Converting and
\* progress 50 is on the connection for it, ahead of every per-page snapshot.
C4_ConvertingSnapshotAt50 ==
    (wpc = "pages") =>
        \E i \in Of(msg.info.job_id) :
            /\ wire[i].data.status = "Converting..."
            /\ Eq(wire[i].data.progress, Num(50))
            /\ \A k \in At_(msg.info.job_id, "page") : i < k

\* C5: the first snapshot of every job has progress 0, status Downloading and
\* the two file names derived from the job's URL.
C5_FirstSnapshotDownloading ==
    \A id \in Ids :
        LET first == wire[SetMin(Of(id))] IN
            /\ Eq(first.data.progress, Num(0))
            /\ first.data.status = "Downloading..."
            /\ first.data.filename # <<>>
            /\ first.data.output_filename =
                   StemOf(first.data.filename) \o <<"_converted", ".pdf">>

\* C6: the values progress_callback is called with are among 10, 20, 30, 40, 50
\* and strictly increasing, and no snapshot written before the transform stage
\* has a progress above 50.
C6_DownloadCheckpoints ==
    \A id \in Ids :
        /\ \A i \in At_(id, "download") :
               \E c \in {10, 20, 30, 40, 50} : Eq(wire[i].data.progress, Num(c))
        /\ \A i, k \in At_(id, "download") :
               i < k => /\ Leq(wire[i].data.progress, wire[k].data.progress)
                        /\ ~Eq(wire[i].data.progress, wire[k].data.progress)
        /\ \A i \in At_(id, "init") \cup At_(id, "download") :
               Leq(wire[i].data.progress, Num(50))

\* C6's case: a download all of whose five checkpoints have fired.
C6_Witness ==
    \E id \in Ids : Cardinality(At_(id, "download")) = 5

\* C7: in the transform stage of a document of n >= 1 pages, one snapshot is
\* written per page, the one after page k has progress 50 + 50 * k / n, the
\* values do not decrease, and the one after page n has exactly 100.
C7_PageProgress ==
    (wpc = "pages" \/ (wpc = "get" /\ msg # None)) =>
        LET pages == At_(msg.info.job_id, "page") IN
            /\ Cardinality(pages) = page_index
            /\ \A k \in 1..page_index :
                   /\ Eq(wire[Nth(pages, k)].data.progress,
                         [num |-> 50 * doc_len + 50 * k, den |-> doc_len])
                   /\ k > 1 => Leq(wire[Nth(pages, k - 1)].data.progress,
                                   wire[Nth(pages, k)].data.progress)
            /\ page_index = doc_len =>
                   Eq(wire[Nth(pages, doc_len)].data.progress, Num(100))

\* C7's case: every page of a document of more than one page is done.
C7_Witness ==
    /\ wpc = "pages"
    /\ doc_len > 1
    /\ page_index = doc_len
    /\ Cardinality(At_(msg.info.job_id, "page")) = doc_len

\* C8: Helper.execute sends a job only when has_configured is true at the call.
C8_SubmitOnlyWhenConfigured ==
    \A id \in DOMAIN submitted : submitted[id].has_configured

\* C9: whatever the Helper's operations did after execute, the job message in
\* the connection, in the queue or in job_worker's hands carries the values the
\* configuration held at the call, and the snapshot's file names are those of
\* its URL.
CarriesSubmitted(m) ==
    m.type = "job" =>
        /\ m.info.job_id \in DOMAIN submitted
        /\ m.info.url = submitted[m.info.job_id].config.url
        /\ m.info.img_format = submitted[m.info.job_id].config.format
        /\ m.info.quality = submitted[m.info.job_id].config.quality
        /\ m.info.ratio = submitted[m.info.job_id].config.ratio
        /\ m.info.is_gray = submitted[m.info.job_id].config.is_grayscale

C9_JobKeepsSubmittedConfiguration ==
    /\ \A i \in DOMAIN to_worker : CarriesSubmitted(to_worker[i])
    /\ \A i \in DOMAIN job_queue : CarriesSubmitted(job_queue[i])
    /\ CarriesSubmitted(msg)
    /\ \A i \in DOMAIN wire :
           /\ wire[i].data.filename = PathTail(submitted[wire[i].id].config.url)
           /\ wire[i].data.output_filename =
                  filename_dst(PathTail(submitted[wire[i].id].config.url))

\* C9's case: job_worker is transforming a job whose every configuration value
\* has since been changed in the Helper.
C9_Witness ==
    /\ wpc = "pages"
    /\ msg.info.url # config.url
    /\ msg.info.img_format # config.format
    /\ msg.info.quality # config.quality
    /\ msg.info.ratio # config.ratio
    /\ msg.info.is_gray # config.is_grayscale
    /\ msg.info.url # <<>>

\* The failures C10 lists, read off the arguments of a call.
ListedFailure(url, head, get) ==
    \/ ~StartsWith(url, "http://") /\ ~StartsWith(url, "https://")
    \/ head.exc
    \/ head.status_code < 200 \/ head.status_code > 299
    \/ ~HasPdf(head.ctype)
    \/ head.clen.kind = "int" /\ head.clen.value > 500 * MB
    \/ get \in {"exc", "empty"}

\* C10: validate_pdf_url never raises; on each listed failure it returns status
\* false; whenever it returns status false the configuration and the configured
\* flag are as before the call; and the URL changes only with status true.
C10_ValidateNeverRaises ==
    (last_call.type = "validate_pdf_url") =>
        /\ last_call.outcome.raised = ""
        /\ ListedFailure(last_call.url, last_call.head, last_call.get) =>
               ~last_call.outcome.status
        /\ ~last_call.outcome.status =>
               /\ config = last_call.config_before
               /\ has_configured = last_call.has_configured_before
        /\ config.url # last_call.config_before.url => last_call.outcome.status

\* C10's case: a call whose Content-Length header is not a number, after a URL
\* was validated and the configuration marked configured.
C10_Witness ==
    /\ last_call.type = "validate_pdf_url"
    /\ last_call.head.clen.kind = "text"
    /\ ~last_call.outcome.status
    /\ config.url # <<>>
    /\ has_configured

\* The ranges of a job message's image format, quality and ratio.
InRange(m) ==
    m.type = "job" =>
        /\ m.info.img_format \in {"jpeg", "png"}
        /\ m.info.quality \in 0..100
        /\ m.info.ratio \in 0..100

\* C11: every job message written to the executor connection, by Helper.execute
\* or by the "!syscall" branch of chat, carries an image format of jpeg or png,
\* an integer quality in [0, 100] and a ratio in [0.0, 1.0].
C11_JobMessagesInRange ==
    /\ \A i \in DOMAIN to_worker : InRange(to_worker[i])
    /\ \A i \in DOMAIN job_queue : InRange(job_queue[i])

\* C12: whatever setters, set_is_configured and reset were called, and with
\* whatever arguments, the configuration has format jpeg or png, an integer
\* quality in [0, 100] and a ratio in [0.0, 1.0]; and right after reset it is
\* the default one (no URL, jpeg, 100, 1.0, colour) and the flag is cleared.
C12_ConfigurationInRange ==
    /\ config.format \in {"jpeg", "png"}
    /\ config.quality \in 0..100
    /\ config.ratio \in 0..100
    /\ last_call.type = "reset" =>
           /\ config = [url |-> <<>>, format |-> "jpeg", quality |-> 100, ratio |-> 100,
                        is_grayscale |-> FALSE]
           /\ ~has_configured

\* C12's case: reset is called on a configuration whose every value had been
\* changed, the quality and the ratio by arguments below their ranges, and
\* which was marked configured.
C12_Witness ==
    /\ last_call.type = "reset"
    /\ last_call.config_before.url # <<>>
    /\ last_call.config_before.format = "png"
    /\ last_call.config_before.quality = 0
    /\ last_call.config_before.ratio = 0
    /\ last_call.config_before.is_grayscale
    /\ last_call.has_configured_before

\* The ids of the job messages in q, in order.
QueueIds(q) == [i \in DOMAIN q |-> q[i].info.job_id]

\* The ids of the jobs job_worker took from the queue, in order.
StartedIds ==
    [k \in 1..Cardinality({i \in DOMAIN wire : emitted_at[i] = "init"}) |->
        wire[Nth({i \in DOMAIN wire : emitted_at[i] = "init"}, k)].id]

WasEnqueued(id) == Positions(enqueued, id) # {}
HasDone(id) == \E i \in Of(id) : IsDone(i) /\ Eq(wire[i].data.progress, Num(100))

\* C13: handle dispatching a delete message, for whatever job id, leaves the
\* queue and job_worker's job as they are; no enqueued job is ever dropped (the
\* jobs taken by job_worker followed by those in the queue are the jobs
\* enqueued, in order); and, no stage raising, every job enqueued when a delete
\* is dispatched is executed to its done snapshot.
C13_DeleteTouchesNothing ==
    /\ [](enqueued = StartedIds \o QueueIds(job_queue))
    /\ [][(to_worker # <<>> /\ Head(to_worker).type = "delete"
              /\ to_worker' = Tail(to_worker))
             => UNCHANGED <<job_queue, jobVars>>]_vars
    /\ \A id \in 1..MaxJobs :
           (last_dispatch.type = "delete" /\ WasEnqueued(id)) ~> HasDone(id)

\* C13's case: a delete was dispatched for the job job_worker was executing,
\* another job waiting in the queue, and both jobs are done since.
C13_Witness ==
    /\ last_dispatch.type = "delete"
    /\ last_dispatch.state = "executing"
    /\ Len(enqueued) >= 2
    /\ last_dispatch.job_id = enqueued[1]
    /\ HasDone(enqueued[1])
    /\ HasDone(enqueued[2])

\* C14: a message that handle dispatched and whose kind is neither job nor
\* delete, its type unknown or missing, has not ended handle, which goes on
\* reading the connection; and dispatching it left the queue as it was.
C14_UnknownKindIgnored ==
    /\ []((last_dispatch # None /\ last_dispatch.type \notin {"job", "delete"})
              => hpc = "reading")
    /\ [][(to_worker # <<>> /\ Head(to_worker).type \notin {"job", "delete"}
              /\ to_worker' = Tail(to_worker))
             => UNCHANGED queueVars]_vars

\* C15: a job that reaches the download stage with its file in ./shared leaves
\* the stage without a download: nothing is written to the connection or to
\* ./shared, and the next stage is the transform (or the job raises); and of two
\* jobs with the same file name, the later one has no download checkpoint.
C15_ExistingFileSkipsDownload ==
    /\ [](\A a, b \in Ids :
              (a # b /\ SetMin(Of(a)) < SetMin(Of(b))
                  /\ wire[SetMin(Of(a))].data.filename = wire[SetMin(Of(b))].data.filename)
                 => At_(b, "download") = {})
    /\ [][(wpc = "download" /\ Exists(update_data.data.filename) /\ wpc' # wpc)
             => (wpc' \in {"convert", "crashed"} /\ UNCHANGED <<wire, shared, dl>>)]_vars

\* C15's case: a job downloaded its file with checkpoints, and a later job with
\* the same file name ran to its done snapshot.
C15_Witness ==
    \E a, b \in Ids :
        /\ a # b
        /\ SetMin(Of(a)) < SetMin(Of(b))
        /\ wire[SetMin(Of(a))].data.filename = wire[SetMin(Of(b))].data.filename
        /\ At_(a, "download") # {}
        /\ At_(b, "page") # {}
        /\ HasDone(b)

\* C16: no stage raising and job_worker running whenever it can take a step,
\* every job that is enqueued eventually has a snapshot with status done and
\* progress 100 on the connection, with job_worker back at job_queue.get().
C16_EveryJobFinishes ==
    \A id \in 1..MaxJobs : WasEnqueued(id) ~> (HasDone(id) /\ wpc = "get")

\* C16's case: every job was enqueued and is done, one after a download and one
\* without, and job_worker waits on the empty queue.
C16_Witness ==
    /\ Len(enqueued) = MaxJobs
    /\ \A id \in 1..MaxJobs : HasDone(id)
    /\ \E id \in Ids : At_(id, "download") # {}
    /\ \E id \in Ids : At_(id, "download") = {}
    /\ job_queue = <<>>
    /\ wpc = "get"

\* C17: a websocket is in the list at most once and, once out of it, stays out;
\* a step removes at most one websocket; and neither removal raises, the
\* handler's for a websocket broadcast_update has removed, or
\* broadcast_update's for a websocket whose handler has removed it.
C17_RemovedOnceWithoutError ==
    /\ [](/\ \A ws \in Observers : Cardinality(Positions(connections, ws)) <= 1
          /\ \A ws \in Observers : ws_state[ws] # "raised"
          /\ bpc # "raised")
    /\ [][/\ Len(connections') >= Len(connections) - 1
          /\ \A ws \in Observers :
                 (ws_state[ws] # "new" /\ Positions(connections, ws) = {})
                    => Positions(connections', ws) = {}]_vars

\* C18: once a job's transform stage has ended, by its last step or by an
\* exception, none of the temporary image files it created is left in ./shared.
C18_NoTempFileLeft ==
    (wpc \in {"get", "crashed"}) => temp_files = {}

\* C19: once a stage of a job has raised, the executor is over: job_worker
\* takes no further step, the failing job has no done or error snapshot, the
\* connection carries nothing more, and handle neither reads another message
\* nor enqueues a job, so the jobs in the queue stay there.
C19_RaiseIsFatal ==
    /\ [](wpc = "crashed" =>
              /\ msg # None
              /\ \A i \in Of(msg.info.job_id) : wire[i].data.status \notin {"done", "error"}
              /\ \A i \in DOMAIN job_queue : Of(job_queue[i].info.job_id) = {})
    /\ [][wpc = "crashed" =>
              /\ wpc' = "crashed"
              /\ UNCHANGED <<wire, job_queue, enqueued, hpc, last_dispatch>>
              /\ Len(to_worker') >= Len(to_worker)]_vars

\* C19's case: the transform stage of a job raised after a page snapshot, with
\* another job waiting in the queue.
C19_Witness ==
    /\ wpc = "crashed"
    /\ At_(msg.info.job_id, "page") # {}
    /\ job_queue # <<>>

\* C20: a download writes no snapshot after the one of checkpoint 50, and when
\* the download stage has returned the file in ./shared holds the whole
\* response body, whatever the chunks and the advertised length.
C20_DownloadReadsWholeBody ==
    /\ \A id \in Ids : Cardinality(At_(id, "download")) <= 5
    /\ (wpc \in {"convert", "pages"}) =>
           \A f \in shared : f.name = update_data.data.filename => f.whole

\* C21: when broadcast_update returns, no send having failed, every websocket
\* that was in the list when the call began and is still subscribed has
\* received the message exactly once, whatever handlers appended to or removed
\* from the list while the call was suspended in a send.
C21_SubscribedThroughoutReceivesOnce ==
    (bpc = "read" /\ bmsg > 0 /\ bfailed = {}) =>
        \A i \in DOMAIN bstart :
            (ws_state[bstart[i]] = "open" /\ Positions(connections, bstart[i]) # {})
                => Cardinality(ReceivedBy(bstart[i], bmsg)) = 1

====
